---- MODULE Spec2Model ----
(***************************************************************************)
(* Kala Vastralya ledger book: the sale transaction lifecycle (creation,   *)
(* numbering, inventory adjustment, edit, deletion) over the embedded      *)
(* database, as implemented by the two server revisions of the repository. *)
(***************************************************************************)
EXTENDS Integers, Sequences, FiniteSets, TLC

(***************************************************************************)
(* Bounds of the model.                                                    *)
(***************************************************************************)
InitStock == 3
MaxItems == 2
MaxSaleId == 2
MaxItemId == 3
MaxNumbered == 3
MaxTime == 3
MaxProducts == 3
MaxRows == 2

(***************************************************************************)
(* Program constants.                                                      *)
(***************************************************************************)
PadWidth == 4

VARIABLES
  server,      \* which server revision is deployed: 1 (IST dates) or 2
  binder,      \* what the SQLite driver does with an undefined parameter
  now,         \* the wall clock, in half-day slots
  products,    \* table products: id -> row
  categories,  \* table categories: the names, in id order
  manufacturers, \* table manufacturers: the names, in id order
  sales,       \* table sales: id -> row
  sale_items,  \* table sale_items: id -> row
  seq,         \* sqlite_sequence: last AUTOINCREMENT id of sales and sale_items
  req,         \* the request handled last
  resp,        \* the response sent last
  created,     \* history: per successful creation, its type, number, id and the
               \* product quantities before it
  ui           \* the page the browser shows, and its React state

vars == <<server, binder, now, products, categories, manufacturers, sales, sale_items, seq, req, resp,
         created, ui>>

\* the lookup tables, which no sales route writes
lookups == <<categories, manufacturers>>

Max(S) == CHOOSE x \in S : \A y \in S : y <= x

\* the ids of the rows of products, the quantities a request asks for, and a
\* product id that is in no row
ProductIds == {1, 2}
Quantities == {1, 2}
UnknownProductId == Max(ProductIds) + 1

(***************************************************************************)
(* The database as one value, so that a transaction can be rolled back.    *)
(***************************************************************************)
Db == [products |-> products, sales |-> sales, sale_items |-> sale_items, seq |-> seq]

RECURSIVE Digits(_)
\* String(n): the decimal digits of n >= 0
Digits(n) == IF n < 10 THEN <<n>> ELSE Append(Digits(n \div 10), n % 10)

RECURSIVE padStart(_, _)
\* str.padStart(width, '0')
padStart(str, width) == IF Len(str) >= width THEN str ELSE padStart(<<0>> \o str, width)

RECURSIVE parseInt(_)
\* parseInt(str, 10) of a digit string
parseInt(str) ==
  IF Len(str) = 0 THEN 0
  ELSE 10 * parseInt(SubSeq(str, 1, Len(str) - 1)) + str[Len(str)]

\* The calendar day of a clock slot in Asia/Kolkata and in UTC: slot 2k is the
\* early morning of IST day k, which is still UTC day k-1.
IstDay(t) == t \div 2
UtcDay(t) == (t - 1) \div 2

\* formatInTimeZone(new Date(), 'Asia/Kolkata', 'yyyy-MM-dd HH:mm:ss')
getCurrentDateIST(t) == <<IstDay(t), t>>

\* new Date().toISOString().split('T')[0]
dateStr(t) == <<UtcDay(t)>>

\* type === 'bill' ? 'BILL' : 'EST'
prefix(type) == IF type = "bill" THEN "BILL" ELSE "EST"


(***************************************************************************)
(* JavaScript values.  A request body is a record together with the set of *)
(* the keys it carries (`present`); a key outside it reads as undefined.   *)
(* SQL NULL is the string "NULL" in a text column and NullNumber in a      *)
(* numeric one.  A statement that is handed undefined                      *)
(* binds NULL or throws a TypeError, as the driver has it; the columns of  *)
(* the second server are NOT NULL, so there it throws either way.          *)
(***************************************************************************)
Null == "NULL"
NullNumber == -1000
Undefined == "undefined"
Has(r, key) == key \in r.present
UndefinedThrows == server = 2 \/ binder = "throw"

\* what a statement stores of a request value it is handed as it came
Sent(r, key) == IF Has(r, key) THEN r[key] ELSE NullNumber

\* x || null, for a string x that may be undefined or empty
OrNull(r, key) == IF Has(r, key) /\ r[key] # "" THEN r[key] ELSE Null

\* total_discount || 0
OrZero(r, key) == IF Has(r, key) THEN r[key] ELSE 0

\* sale_price and category of the catalogue, as the pages copy them into an item
PriceOf(p) == 10 * p
CostOf(p) == 5 * p
CategoryOf(p) == IF p = 1 THEN "Sarees" ELSE "Coord Set"

(***************************************************************************)
(* better-sqlite3 statements.  run() throws when a bound parameter is      *)
(* undefined, when a UNIQUE or NOT NULL constraint fails, and when a       *)
(* foreign key has no parent row (foreign keys are on by default).         *)
(***************************************************************************)
\* the sale of a type with the highest id: ORDER BY id DESC LIMIT 1
lastSale(d, type) ==
  LET same == {i \in DOMAIN d.sales : d.sales[i].type = type}
  IN  IF same = {} THEN 0 ELSE Max(same)

\* nextNumber of the first server
nextNumber(d, type) ==
  IF lastSale(d, type) = 0 THEN 1
  ELSE parseInt(d.sales[lastSale(d, type)].number[2]) + 1

\* `${prefix}-${String(nextNumber).padStart(4, '0')}`
formattedNumber(d, type) == <<prefix(type), padStart(Digits(nextNumber(d, type)), PadWidth)>>

\* SELECT COUNT(*) FROM sales WHERE date LIKE `${dateStr}%`
salesCountToday(d, t) == Cardinality({i \in DOMAIN d.sales : d.sales[i].date[1] = dateStr(t)[1]})

\* `${prefix}-${formattedDate}-${(salesCountToday + 1).toString().padStart(4, '0')}`
saleNumber(d, type, t) ==
  <<prefix(type), dateStr(t)[1], padStart(Digits(salesCountToday(d, t) + 1), PadWidth)>>

NumberTaken(d, number) == \E i \in DOMAIN d.sales : d.sales[i].number = number

\* INSERT INTO sales (...): the row gets the next AUTOINCREMENT id
InsertSale(d, row) ==
  LET id == d.seq.sales + 1
  IN  [d EXCEPT !.sales = [i \in DOMAIN d.sales \cup {id} |->
                             IF i = id THEN row ELSE d.sales[i]],
                !.seq = [d.seq EXCEPT !.sales = id]]

\* the insertion that refuses an item of more than the stock
ItemThrowsOnShortStock(d, item) ==
  \/ ~item.bindable
  \/ item.category_name = Undefined /\ UndefinedThrows
  \/ item.product_id \notin DOMAIN d.products
  \/ (item.product_id \in DOMAIN d.products /\ item.quantity > d.products[item.product_id].quantity)

\* one turn of the item loop: INSERT INTO sale_items, then
\* UPDATE products SET quantity = quantity - ? WHERE id = ?
\* it throws on a value that cannot be bound, on an undefined category_name where
\* that throws, and on a product_id that is in no row (FOREIGN KEY)
ItemThrows(d, item) ==
  \/ ~item.bindable
  \/ item.category_name = Undefined /\ UndefinedThrows
  \/ item.product_id \notin DOMAIN d.products

\* the insertion that takes one unit from the product whatever the item's quantity
InsertItemTakesOne(d, saleId, item) ==
  LET id == d.seq.sale_items + 1
      row == [sale_id |-> saleId, product_id |-> item.product_id,
              category_name |-> item.category_name, sale_price |-> item.sale_price,
              quantity |-> item.quantity, item_final_price |-> item.item_final_price]
  IN  [d EXCEPT !.sale_items = [i \in DOMAIN d.sale_items \cup {id} |->
                                  IF i = id THEN row ELSE d.sale_items[i]],
                !.seq = [d.seq EXCEPT !.sale_items = id],
                !.products = [d.products EXCEPT ![item.product_id].quantity = @ - 1]]

\* the insertion that stores the row and leaves the product alone
InsertItemKeepsStock(d, saleId, item) ==
  LET id == d.seq.sale_items + 1
      row == [sale_id |-> saleId, product_id |-> item.product_id,
              category_name |-> item.category_name, sale_price |-> item.sale_price,
              quantity |-> item.quantity, item_final_price |-> item.item_final_price]
  IN  [d EXCEPT !.sale_items = [i \in DOMAIN d.sale_items \cup {id} |->
                                  IF i = id THEN row ELSE d.sale_items[i]],
                !.seq = [d.seq EXCEPT !.sale_items = id]]

InsertItem(d, saleId, item) ==
  LET id == d.seq.sale_items + 1
      row == [sale_id |-> saleId, product_id |-> item.product_id,
              category_name |-> IF item.category_name = Undefined THEN Null
                                ELSE item.category_name,
              sale_price |-> item.sale_price,
              quantity |-> item.quantity, item_final_price |-> item.item_final_price]
  IN  [d EXCEPT !.sale_items = [i \in DOMAIN d.sale_items \cup {id} |->
                                  IF i = id THEN row ELSE d.sale_items[i]],
                !.seq = [d.seq EXCEPT !.sale_items = id],
                !.products = [d.products EXCEPT ![item.product_id].quantity = @ - item.quantity]]

RECURSIVE InsertItems(_, _, _)
\* items.forEach(...) / for (const item of items): stops at the first throw,
\* leaving the writes made so far to the enclosing transaction
InsertItems(d, saleId, items) ==
  IF Len(items) = 0 THEN [db |-> d, threw |-> FALSE]
  ELSE IF ItemThrows(d, Head(items)) THEN [db |-> d, threw |-> TRUE]
  ELSE InsertItems(InsertItem(d, saleId, Head(items)), saleId, Tail(items))

\* the rows of a sale in sale_items, in id order
ItemIdsOf(d, saleId) == {i \in DOMAIN d.sale_items : d.sale_items[i].sale_id = saleId}

\* the restoration that adds nothing back
RestoreNothing(d, ids) == d

RECURSIVE RestoreItems(_, _)
\* UPDATE products SET quantity = quantity + ? WHERE id = ?, for each row
RestoreItems(d, ids) ==
  IF ids = {} THEN d
  ELSE LET i == CHOOSE x \in ids : \A y \in ids : x <= y
           it == d.sale_items[i]
       IN  RestoreItems(
             [d EXCEPT !.products = [p \in DOMAIN d.products |->
                  IF p = it.product_id
                  THEN [d.products[p] EXCEPT !.quantity = @ + it.quantity]
                  ELSE d.products[p]]],
             ids \ {i})

\* the deletion that removes no row
DeleteNoItems(d, saleId) == d

\* DELETE FROM sale_items WHERE sale_id = ?
DeleteItems(d, saleId) ==
  [d EXCEPT !.sale_items = [i \in DOMAIN d.sale_items \ ItemIdsOf(d, saleId) |-> d.sale_items[i]]]

\* the transaction that keeps what fn wrote before it threw
transactionKeepsWrites(d, out) == out.db

\* db.transaction(fn)(): commit what fn wrote, or roll all of it back when fn throws
transaction(d, out) == IF out.threw THEN d ELSE out.db

(***************************************************************************)
(* POST /api/sales                                                         *)
(***************************************************************************)
Reply(d, status, body) == [db |-> d, status |-> status, body |-> body]

\* the row both servers insert; they differ in the number, the date and the
\* customer name (first server: customer_name || 'Walk In Customer')
SaleRow(r, number, date, name) ==
  [type |-> r.type, number |-> number, customer_name |-> name,
   mobile |-> OrNull(r, "mobile"), payment_mode |-> OrNull(r, "payment_mode"),
   remarks |-> OrNull(r, "remarks"), date |-> date,
   total_amount |-> Sent(r, "total_amount"), total_discount |-> OrZero(r, "total_discount"),
   final_amount |-> Sent(r, "final_amount")]

finalCustomerName(r) ==
  IF Has(r, "customer_name") /\ r.customer_name # "" THEN r.customer_name
  ELSE "Walk In Customer"

\* the statement binds total_amount and final_amount as they came
SaleBindThrows(r) == (~Has(r, "total_amount") \/ ~Has(r, "final_amount")) /\ UndefinedThrows

\* the body of db.transaction(() => {...}) of the first server
createSaleTxn1(d, r, date) ==
  LET number == formattedNumber(d, r.type)
      row == SaleRow(r, number, date, finalCustomerName(r))
  IN  IF SaleBindThrows(r) \/ NumberTaken(d, number)
      THEN [db |-> d, threw |-> TRUE, result |-> [id |-> 0]]
      ELSE LET d1 == InsertSale(d, row)
               saleId == d1.seq.sales
               it == InsertItems(d1, saleId, r.items.list)
           IN  [db |-> it.db, threw |-> it.threw,
                result |-> [id |-> saleId, number |-> number, date |-> date]]

postSales1(d, r, t) ==
  IF ~Has(r, "type") \/ ~Has(r, "items") \/ r.items.kind # "list" \/ Len(r.items.list) = 0
  THEN Reply(d, 400, [error |-> "Type and items are required"])
  ELSE LET txn == createSaleTxn1(d, r, getCurrentDateIST(t))
       IN  IF txn.threw
           THEN Reply(transaction(d, txn), 500, [error |-> "Failed to create sale"])
           ELSE Reply(transaction(d, txn), 201, txn.result)

\* SELECT s.*, json_group_array(json_object(...)) ... WHERE s.id = ?
RECURSIVE ItemsJson(_, _)
ItemsJson(d, ids) ==
  IF ids = {} THEN <<>>
  ELSE LET i == CHOOSE x \in ids : \A y \in ids : x <= y
           it == d.sale_items[i]
       IN  <<[id |-> i, product_id |-> it.product_id, category_name |-> it.category_name,
              sale_price |-> it.sale_price, quantity |-> it.quantity,
              item_final_price |-> it.item_final_price]>> \o ItemsJson(d, ids \ {i})

SaleJson(d, id) ==
  LET s == d.sales[id]
  IN  [id |-> id, date |-> s.date, number |-> s.number, type |-> s.type,
       customer_name |-> s.customer_name, mobile |-> s.mobile,
       payment_mode |-> s.payment_mode, remarks |-> s.remarks,
       total_amount |-> s.total_amount, total_discount |-> s.total_discount,
       final_amount |-> s.final_amount, items |-> ItemsJson(d, ItemIdsOf(d, id))]

\* the body of db.transaction(() => {...}) of the second server
createSaleTxn2(d, r, number, date) ==
  LET row == SaleRow(r, number, date, OrNull(r, "customer_name"))
  IN  IF SaleBindThrows(r) \/ NumberTaken(d, number)
      THEN [db |-> d, threw |-> TRUE, result |-> [id |-> 0]]
      ELSE LET d1 == InsertSale(d, row)
               saleId == d1.seq.sales
               it == InsertItems(d1, saleId, r.items.list)
           IN  [db |-> it.db, threw |-> it.threw,
                result |-> IF it.threw THEN [id |-> 0] ELSE SaleJson(it.db, saleId)]

\* !items.length: an array or a string with at least one element passes
HasLength(r) == r.items.kind \in {"list", "string"} /\ Len(r.items.list) > 0

postSales2(d, r, t) ==
  IF ~Has(r, "type") \/ ~Has(r, "final_amount") \/ ~Has(r, "items") \/ ~HasLength(r)
  THEN Reply(d, 400, [error |-> "Required fields missing"])
  ELSE LET txn == createSaleTxn2(d, r, saleNumber(d, r.type, t), dateStr(t))
       IN  IF txn.threw
           THEN Reply(transaction(d, txn), 500, [error |-> "SqliteError"])
           ELSE Reply(transaction(d, txn), 201, txn.result)

postSales(d, r, t) == IF server = 1 THEN postSales1(d, r, t) ELSE postSales2(d, r, t)

(***************************************************************************)
(* PUT /api/sales/:id                                                      *)
(***************************************************************************)
\* the update that also writes the type the request carries
UpdateTotalsAndType(d, id, r) ==
  [d EXCEPT !.sales = [i \in DOMAIN d.sales |->
     IF i = id
     THEN [d.sales[i] EXCEPT !.total_amount = Sent(r, "total_amount"),
                             !.total_discount = OrZero(r, "total_discount"),
                             !.final_amount = Sent(r, "final_amount"),
                             !.type = r.type]
     ELSE d.sales[i]]]

\* UPDATE sales SET total_amount = ?, total_discount = ?, final_amount = ? WHERE id = ?
UpdateTotals(d, id, r) ==
  [d EXCEPT !.sales = [i \in DOMAIN d.sales |->
     IF i = id
     THEN [d.sales[i] EXCEPT !.total_amount = Sent(r, "total_amount"),
                             !.total_discount = OrZero(r, "total_discount"),
                             !.final_amount = Sent(r, "final_amount")]
     ELSE d.sales[i]]]

\* the transaction without its check that the sale exists
updateSaleTxn1AnySale(d, id, r) ==
  LET d1 == RestoreItems(d, ItemIdsOf(d, id))
  IN  IF SaleBindThrows(r) THEN [db |-> d1, threw |-> TRUE, message |-> "TypeError"]
      ELSE LET d2 == DeleteItems(UpdateTotals(d1, id, r), id)
               it == InsertItems(d2, id, r.items.list)
           IN  [db |-> it.db, threw |-> it.threw, message |-> "SqliteError"]

updateSaleTxn1(d, id, r) ==
  IF id \notin DOMAIN d.sales THEN [db |-> d, threw |-> TRUE, message |-> "Sale not found"]
  ELSE LET d1 == RestoreItems(d, ItemIdsOf(d, id))
       IN  IF SaleBindThrows(r) THEN [db |-> d1, threw |-> TRUE, message |-> "TypeError"]
           ELSE LET d2 == DeleteItems(UpdateTotals(d1, id, r), id)
                    it == InsertItems(d2, id, r.items.list)
                IN  [db |-> it.db, threw |-> it.threw, message |-> "SqliteError"]

putSales1(d, id, r) ==
  IF ~Has(r, "items") \/ r.items.kind # "list"
  THEN Reply(d, 400, [error |-> "Items are required"])
  ELSE LET txn == updateSaleTxn1(d, id, r)
       IN  IF ~txn.threw
           THEN Reply(transaction(d, txn), 200, [id |-> id, message |-> "Sale updated successfully"])
           ELSE IF txn.message = "Sale not found"
           THEN Reply(transaction(d, txn), 404, [error |-> "Sale not found"])
           ELSE Reply(transaction(d, txn), 500, [error |-> "Failed to update sale"])

\* the transaction that deletes the sale's rows before it reads them to restore
updateSaleTxn2DeletesFirst(d, id, r) ==
  IF SaleBindThrows(r) THEN [db |-> d, threw |-> TRUE]
  ELSE LET d1 == DeleteItems(UpdateTotals(d, id, r), id)
           d2 == RestoreItems(d1, ItemIdsOf(d1, id))
           it == InsertItems(d2, id, r.items.list)
       IN  [db |-> it.db, threw |-> it.threw]

updateSaleTxn2(d, id, r) ==
  IF SaleBindThrows(r) THEN [db |-> d, threw |-> TRUE]
  ELSE LET d1 == UpdateTotals(d, id, r)
           d2 == DeleteItems(RestoreItems(d1, ItemIdsOf(d1, id)), id)
           it == InsertItems(d2, id, r.items.list)
       IN  [db |-> it.db, threw |-> it.threw]

putSales2(d, id, r) ==
  IF ~Has(r, "final_amount") \/ ~Has(r, "items") \/ ~HasLength(r)
  THEN Reply(d, 400, [error |-> "Required fields missing"])
  ELSE IF id \notin DOMAIN d.sales
  THEN Reply(d, 404, [error |-> "Sale not found"])
  ELSE LET txn == updateSaleTxn2(d, id, r)
           d3 == transaction(d, txn)
       IN  IF txn.threw THEN Reply(d3, 500, [error |-> "SqliteError"])
           ELSE Reply(d3, 200, SaleJson(d3, id))

putSales(d, id, r) == IF server = 1 THEN putSales1(d, id, r) ELSE putSales2(d, id, r)

(***************************************************************************)
(* DELETE /api/sales/:id, the handler behind deleteSaleApi: it removes the *)
(* sale and its items and restores the product quantity of every removed   *)
(* item, in one transaction.                                               *)
(***************************************************************************)
deleteSale(d, id) ==
  IF id \notin DOMAIN d.sales THEN Reply(d, 404, [error |-> "Sale not found"])
  ELSE LET d1 == DeleteItems(RestoreItems(d, ItemIdsOf(d, id)), id)
           d2 == [d1 EXCEPT !.sales = [i \in DOMAIN d1.sales \ {id} |-> d1.sales[i]]]
       IN  Reply(d2, 200, [id |-> id, message |-> "Sale deleted successfully"])

(***************************************************************************)
(* Requests.                                                               *)
(***************************************************************************)
SaleTypes == {"bill", "estimate"}
CustomerNames == {""}
Discounts == {0}

SaleKeys == {"type", "customer_name", "mobile", "payment_mode", "remarks",
             "total_amount", "total_discount", "final_amount", "items"}
EditKeys == {"total_amount", "total_discount", "final_amount", "items"}

Item(p, q) ==
  [product_id |-> p, category_name |-> CategoryOf(p), sale_price |-> PriceOf(p),
   quantity |-> q, item_final_price |-> PriceOf(p) * q, bindable |-> TRUE]

\* an item of a product id that is in no row of products
UnknownItem == Item(UnknownProductId, 1)
\* an item that lacks a key the statement binds, as every character of a string does
BrokenItem == [Item(1, 1) EXCEPT !.bindable = FALSE]

ValidItems == {Item(p, q) : p \in ProductIds, q \in Quantities}

\* item lists every row of which can be written
ItemLists(n) == UNION {[1..k -> ValidItems] : k \in 0..n}

\* item lists whose last row cannot be written, after none or one that can
FailingLists == {l \o <<bad>> : l \in {<<>>, <<Item(1, 1)>>}, bad \in {UnknownItem, BrokenItem}}

RECURSIVE SumFinalPrice(_)
SumFinalPrice(list) ==
  IF Len(list) = 0 THEN 0 ELSE Head(list).item_final_price + SumFinalPrice(Tail(list))

Body(op, keys, type, name, discount, list) ==
  [op |-> op, present |-> keys, type |-> type, customer_name |-> name, mobile |-> "",
   payment_mode |-> "", remarks |-> "", total_amount |-> SumFinalPrice(list),
   total_discount |-> discount, final_amount |-> SumFinalPrice(list) - discount,
   items |-> [kind |-> "list", list |-> list]]

Without(r, key) == [r EXCEPT !.present = @ \ {key}]
\* items: "x" (a string) and items: {} (an object) in place of an array
WithStringItems(r) == [r EXCEPT !.items = [kind |-> "string", list |-> <<BrokenItem>>]]
WithObjectItems(r) == [r EXCEPT !.items = [kind |-> "object", list |-> <<>>]]

Malformed(r) ==
  {Without(r, k) : k \in {"type", "items", "final_amount", "total_amount"} \cap r.present}
    \cup {WithStringItems(r), WithObjectItems(r)}

Min(a, b) == IF a <= b THEN a ELSE b

\* the item rows a request may still add before sale_items runs out of ids
Room(itemCap) == Min(MaxItems, itemCap - seq.sale_items)

NoRequest == Body("none", {}, "", "", 0, <<>>)

\* well-formed requests, over every item list there is room for; they are bills,
\* the type deciding nothing but the number (see NumberedRequests)
CreateRequests ==
  {Body("createSale", SaleKeys, "bill", n, disc, l) :
     n \in CustomerNames, disc \in Discounts, l \in ItemLists(Room(MaxItemId))}

UpdateRequests ==
  {Body("updateSale", EditKeys, "", "", disc, l) :
     disc \in Discounts, l \in ItemLists(Room(MaxItemId))}

\* requests that differ in type only, each of one item
NumberedRequests ==
  {Body("createSale", SaleKeys, t, "", 0, <<Item(1, 1)>>) : t \in SaleTypes}

\* requests that lack a key, carry no array, or carry a row that cannot be written
FaultyCreateRequests ==
  {Body("createSale", SaleKeys, "bill", "", 0, l) : l \in FailingLists \cup {<<>>, <<Item(1, 1)>>}}
    \cup Malformed(Body("createSale", SaleKeys, "bill", "", 0, <<Item(1, 1)>>))

FaultyUpdateRequests ==
  {Body("updateSale", EditKeys, "", "", 0, l) : l \in FailingLists \cup {<<>>, <<Item(2, 1)>>}}
    \cup Malformed(Body("updateSale", EditKeys, "", "", 0, <<Item(1, 1)>>))

(***************************************************************************)
(* The state machine: one step per request.                                *)
(***************************************************************************)
\* a page as it is mounted: every useState at its initial value
Mounted(page) ==
  [page |-> page, cartItems |-> <<>>, totalAmount |-> 0, discount |-> 0, finalAmount |-> 0,
   showReceipt |-> FALSE, selectedSaleId |-> 0, isEditing |-> FALSE, editedItems |-> <<>>,
   searchQuery |-> "", paymentMode |-> "", receiptType |-> "bill"]

Init ==
  /\ server \in {1, 2}
  /\ binder \in {"null", "throw"}
  /\ now = 1
  /\ categories = <<"Sarees", "Coord Set">>
  /\ manufacturers = <<"XYZ Clothing", "ABC Manufacturer">>
  /\ products = [p \in ProductIds |->
                  [barcode |-> p, category_id |-> p, manufacturer_id |-> p,
                   quantity |-> InitStock, cost_price |-> CostOf(p), sale_price |-> PriceOf(p)]]
  /\ sales = <<>>
  /\ sale_items = <<>>
  /\ seq = [sales |-> 0, sale_items |-> 0]
  /\ req = NoRequest
  /\ resp = [op |-> "none", id |-> 0, status |-> 0, body |-> [error |-> ""]]
  /\ created = <<>>
  /\ ui = Mounted("sales-report")

Commit(out) ==
  /\ products' = out.db.products
  /\ sales' = out.db.sales
  /\ sale_items' = out.db.sale_items
  /\ seq' = out.db.seq

\* POST /api/sales with body r
Post(r) ==
  LET out == postSales(Db, r, now) IN
    /\ Commit(out)
    /\ resp' = [op |-> "createSale", id |-> 0, status |-> out.status, body |-> out.body]
    /\ created' = IF out.status = 201
                  THEN Append(created, [type |-> r.type, number |-> out.body.number,
                                        id |-> out.body.id,
                                        before |-> [p \in DOMAIN products |-> products[p].quantity]])
                  ELSE created
    /\ req' = r
    /\ UNCHANGED <<server, binder, now, lookups>>

\* PUT /api/sales/:id with body r
Put(id, r) ==
  LET out == putSales(Db, id, r) IN
    /\ Commit(out)
    /\ resp' = [op |-> "updateSale", id |-> id, status |-> out.status, body |-> out.body]
    /\ req' = r
    /\ UNCHANGED <<server, binder, now, lookups, created>>

\* DELETE /api/sales/:id
Delete(id) ==
  LET out == deleteSale(Db, id) IN
    /\ Commit(out)
    /\ resp' = [op |-> "deleteSale", id |-> id, status |-> out.status, body |-> out.body]
    /\ req' = [NoRequest EXCEPT !.op = "deleteSale"]
    /\ UNCHANGED <<server, binder, now, lookups, created>>

\* the ids a client may name: every sale there is, and one there is not
SaleIds == DOMAIN sales \cup {seq.sales + 1}

CreateSale == seq.sales < MaxSaleId /\ UNCHANGED ui /\ \E r \in CreateRequests : Post(r)
UpdateSale == UNCHANGED ui /\ \E id \in DOMAIN sales, r \in UpdateRequests : Put(id, r)
DeleteSale == UNCHANGED ui /\ \E id \in DOMAIN sales : Delete(id)

Next == CreateSale \/ UpdateSale \/ DeleteSale

Spec == Init /\ [][Next]_vars

(***************************************************************************)
(* Numbering: sales of both types over several days.                       *)
(***************************************************************************)
Tick ==
  /\ now < MaxTime
  /\ now' = now + 1
  /\ UNCHANGED <<server, binder, products, lookups, sales, sale_items, seq, req, resp, created, ui>>

NumberedCreate ==
  /\ seq.sales < MaxNumbered
  /\ seq.sale_items < MaxNumbered + 1
  /\ UNCHANGED ui
  /\ \E r \in NumberedRequests : Post(r)

NumberedUpdate ==
  /\ seq.sale_items < MaxNumbered + 1
  /\ UNCHANGED ui
  /\ \E id \in DOMAIN sales : Put(id, Body("updateSale", EditKeys, "", "", 0, <<Item(1, 1)>>))

NextNumbering == NumberedCreate \/ NumberedUpdate \/ DeleteSale \/ Tick

SpecNumbering == Init /\ [][NextNumbering]_vars

(***************************************************************************)
(* Faults: requests the handlers refuse or fail on.                        *)
(***************************************************************************)
FaultyCreate ==
  /\ seq.sales < MaxSaleId
  /\ seq.sale_items + MaxItems <= MaxItemId
  /\ UNCHANGED ui
  /\ \E r \in FaultyCreateRequests : Post(r)

FaultyUpdate ==
  /\ seq.sale_items + MaxItems <= MaxItemId
  /\ UNCHANGED ui
  /\ \E id \in SaleIds, r \in FaultyUpdateRequests : Put(id, r)

FaultyDelete == UNCHANGED ui /\ \E id \in SaleIds : Delete(id)

NextFaults == FaultyCreate \/ FaultyUpdate \/ FaultyDelete

SpecFaults == Init /\ [][NextFaults]_vars

(***************************************************************************)
(* Inventory routes: categories, manufacturers, products, import, export.  *)
(***************************************************************************)
Inv == [products |-> products, categories |-> categories, manufacturers |-> manufacturers]

\* !x of a numeric request value: undefined and 0 are falsy
Falsy(r, key) == ~Has(r, key) \/ r[key] = 0

Known(table, name) == \E i \in DOMAIN table : table[i] = name
IdOf(table, name) == CHOOSE i \in DOMAIN table : table[i] = name

\* POST /api/categories and POST /api/manufacturers, on one lookup table
postLookup(table, r) ==
  IF ~Has(r, "name") \/ r.name = ""
  THEN [table |-> table, status |-> 400, body |-> [error |-> "name is required"]]
  ELSE IF Known(table, r.name)
  THEN [table |-> table, status |-> IF server = 1 THEN 409 ELSE 500,
        body |-> [error |-> "UNIQUE constraint failed"]]
  ELSE [table |-> Append(table, r.name), status |-> 201,
        body |-> [id |-> Len(table) + 1, name |-> r.name]]

ProductKeys == {"barcode", "category_id", "manufacturer_id", "quantity", "cost_price", "sale_price"}

\* the lookup that finds no product
BarcodeNeverTaken(inv, barcode) == FALSE

BarcodeTaken(inv, barcode) == \E i \in DOMAIN inv.products : inv.products[i].barcode = barcode
ProductOfBarcode(inv, barcode) == CHOOSE i \in DOMAIN inv.products : inv.products[i].barcode = barcode

\* INSERT INTO products: the next AUTOINCREMENT id (no route deletes a product)
NextProductId(inv) == Cardinality(DOMAIN inv.products) + 1

InsertProduct(inv, row) ==
  [inv EXCEPT !.products = [i \in DOMAIN inv.products \cup {NextProductId(inv)} |->
                              IF i \in DOMAIN inv.products THEN inv.products[i] ELSE row]]

ProductRowOf(r) ==
  [barcode |-> r.barcode, category_id |-> r.category_id, manufacturer_id |-> r.manufacturer_id,
   quantity |-> r.quantity, cost_price |-> r.cost_price, sale_price |-> r.sale_price]

\* a product row joined with its category and manufacturer names
ProductJson(inv, id) ==
  LET row == inv.products[id]
  IN  [id |-> id, barcode |-> row.barcode, quantity |-> row.quantity,
       cost_price |-> row.cost_price, sale_price |-> row.sale_price,
       category |-> inv.categories[row.category_id],
       manufacturer |-> inv.manufacturers[row.manufacturer_id],
       category_id |-> row.category_id, manufacturer_id |-> row.manufacturer_id]

\* the FOREIGN KEY constraints of products
ProductKeysDangle(inv, r) ==
  r.category_id \notin DOMAIN inv.categories \/ r.manufacturer_id \notin DOMAIN inv.manufacturers

\* POST /api/products
postProducts1(inv, r) ==
  IF \E key \in ProductKeys : Falsy(r, key)
  THEN Reply(inv, 400, [error |-> "All fields are required"])
  ELSE IF BarcodeTaken(inv, r.barcode)
  THEN Reply(inv, 409, [error |-> "Barcode already exists"])
  ELSE IF ProductKeysDangle(inv, r)
  THEN Reply(inv, 500, [error |-> "Failed to create product"])
  ELSE Reply(InsertProduct(inv, ProductRowOf(r)), 201,
             ProductRowOf(r) @@ [id |-> NextProductId(inv)])

postProducts2(inv, r) ==
  IF \/ \E key \in {"barcode", "category_id", "manufacturer_id"} : Falsy(r, key)
     \/ \E key \in {"quantity", "cost_price", "sale_price"} : ~Has(r, key)
  THEN Reply(inv, 400, [error |-> "All fields are required"])
  ELSE IF BarcodeTaken(inv, r.barcode) \/ ProductKeysDangle(inv, r)
  THEN Reply(inv, 500, [error |-> "SqliteError"])
  ELSE LET inv1 == InsertProduct(inv, ProductRowOf(r))
       IN  Reply(inv1, 201, ProductJson(inv1, NextProductId(inv)))

postProducts(inv, r) == IF server = 1 THEN postProducts1(inv, r) ELSE postProducts2(inv, r)

\* the update that has lost its WHERE clause
SetQuantityOfAll(inv, id, quantity) ==
  [inv EXCEPT !.products = [i \in DOMAIN inv.products |->
     [inv.products[i] EXCEPT !.quantity = quantity]]]

\* UPDATE products SET quantity = ? WHERE id = ?
SetQuantity(inv, id, quantity) ==
  [inv EXCEPT !.products = [i \in DOMAIN inv.products |->
     IF i = id THEN [inv.products[i] EXCEPT !.quantity = quantity] ELSE inv.products[i]]]

\* PATCH /api/products/:id/quantity
patchQuantity1(inv, id, r) ==
  IF id \notin DOMAIN inv.products THEN Reply(inv, 404, [error |-> "Product not found"])
  ELSE IF ~Has(r, "quantity") /\ UndefinedThrows
  THEN Reply(inv, 500, [error |-> "Failed to update product quantity"])
  ELSE Reply(SetQuantity(inv, id, Sent(r, "quantity")), 200,
             [id |-> id, quantity |-> Sent(r, "quantity")])

patchQuantity2(inv, id, r) ==
  IF ~Has(r, "quantity") THEN Reply(inv, 400, [error |-> "Quantity is required"])
  ELSE IF id \notin DOMAIN inv.products THEN Reply(inv, 404, [error |-> "Product not found"])
  ELSE LET inv1 == SetQuantity(inv, id, r.quantity)
       IN  Reply(inv1, 200, ProductJson(inv1, id))

patchQuantity(inv, id, r) ==
  IF server = 1 THEN patchQuantity1(inv, id, r) ELSE patchQuantity2(inv, id, r)

\* GET /api/products
getProducts(inv) ==
  Reply(inv, 200, [rows |-> [i \in 1..Cardinality(DOMAIN inv.products) |-> ProductJson(inv, i)]])

\* GET /api/products/:barcode
getProductByBarcode(inv, barcode) ==
  IF ~BarcodeTaken(inv, barcode) THEN Reply(inv, 404, [error |-> "Product not found"])
  ELSE Reply(inv, 200, ProductJson(inv, ProductOfBarcode(inv, barcode)))

\* GET /api/export/products: the sheet's rows
exportProducts(inv) ==
  IF server = 1 /\ DOMAIN inv.products = {}
  THEN Reply(inv, 404, [error |-> "No products found to export"])
  ELSE
  Reply(inv, 200,
        [rows |-> [i \in 1..Cardinality(DOMAIN inv.products) |->
           LET j == ProductJson(inv, i)
           IN  [barcode |-> j.barcode, category |-> j.category, manufacturer |-> j.manufacturer,
                quantity |-> j.quantity, cost_price |-> j.cost_price,
                sale_price |-> j.sale_price]]])

(***************************************************************************)
(* POST /api/import/products                                               *)
(***************************************************************************)
RowKeys == {"barcode", "category", "manufacturer", "quantity", "cost_price", "sale_price"}

\* get or create a lookup row by name: the table afterwards and the row's id
getOrCreate(table, name) ==
  IF Known(table, name) THEN [table |-> table, id |-> IdOf(table, name)]
  ELSE [table |-> Append(table, name), id |-> Len(table) + 1]

\* the body of the loop for one sheet row: the database afterwards and whether
\* the row threw; what the row wrote before it threw stays written.  A cell
\* that holds a boolean cannot be bound, so the statement it reaches throws.
importRow(inv, row) ==
  IF "category" \in row.boolean THEN [inv |-> inv, threw |-> TRUE]
  ELSE
  LET c == getOrCreate(inv.categories, row.category)
      inv1 == [inv EXCEPT !.categories = c.table]
  IN  IF "manufacturer" \in row.boolean THEN [inv |-> inv1, threw |-> TRUE]
      ELSE
      LET m == getOrCreate(inv1.manufacturers, row.manufacturer)
          inv2 == [inv1 EXCEPT !.manufacturers = m.table]
          new == [barcode |-> row.barcode, category_id |-> c.id, manufacturer_id |-> m.id,
                  quantity |-> row.quantity, cost_price |-> row.cost_price,
                  sale_price |-> row.sale_price]
      IN  IF row.boolean \cap {"barcode", "quantity", "cost_price", "sale_price"} # {}
          THEN [inv |-> inv2, threw |-> TRUE]
          ELSE IF BarcodeTaken(inv2, row.barcode)
          THEN [inv |-> [inv2 EXCEPT !.products[ProductOfBarcode(inv2, row.barcode)] = new],
                threw |-> FALSE]
          ELSE [inv |-> InsertProduct(inv2, new), threw |-> FALSE]

RECURSIVE importRows(_, _, _, _, _)
\* data.forEach((row, index) => ...): the first server reports a failing row as
\* index + 1, the second as imported + 1
importRows(inv, rows, index, imported, errors) ==
  IF index > Len(rows) THEN [inv |-> inv, imported |-> imported, errors |-> errors]
  ELSE LET out == importRow(inv, rows[index])
       IN  IF out.threw
           THEN importRows(out.inv, rows, index + 1, imported,
                           Append(errors, IF server = 1 THEN index ELSE imported + 1))
           ELSE importRows(out.inv, rows, index + 1, imported + 1, errors)

importProducts(inv, file) ==
  IF ~file.uploaded THEN Reply(inv, 400, [error |-> "No file uploaded"])
  ELSE IF Len(file.rows) = 0 THEN Reply(inv, 400, [error |-> "Excel file is empty"])
  ELSE IF file.rows[1].present # RowKeys THEN Reply(inv, 400, [error |-> "Missing required columns"])
  ELSE LET out == importRows(inv, file.rows, 1, 0, <<>>)
       IN  Reply(out.inv, IF server = 1 THEN 200 ELSE 201,
                 [imported |-> out.imported, total |-> Len(file.rows), errors |-> out.errors])

(***************************************************************************)
(* Inventory requests.                                                     *)
(***************************************************************************)
\* the quantities a client sets, and the barcode a new product may carry
StockLevels == {0, 5}
NewBarcode == Min(Cardinality(DOMAIN products) + 1, MaxProducts)
UnknownLookupId == 9

LookupRequests(known, new) ==
  {[op |-> "createLookup", present |-> {"name"}, name |-> n] : n \in {known, new}}
    \cup {[op |-> "createLookup", present |-> {}, name |-> ""]}

ProductRequest(barcode, category_id, quantity) ==
  [op |-> "createProduct", present |-> ProductKeys, barcode |-> barcode,
   category_id |-> category_id, manufacturer_id |-> 1, quantity |-> quantity,
   cost_price |-> CostOf(barcode), sale_price |-> PriceOf(barcode)]

ProductRequests ==
  {ProductRequest(b, 1, q) : b \in {1, NewBarcode}, q \in StockLevels}
    \cup {ProductRequest(NewBarcode, UnknownLookupId, 5)}
    \cup {Without(ProductRequest(NewBarcode, 1, 5), key) : key \in ProductKeys}

QuantityRequests ==
  {[op |-> "patchQuantity", present |-> {"quantity"}, quantity |-> q] : q \in StockLevels}
    \cup {[op |-> "patchQuantity", present |-> {}, quantity |-> 0]}

\* a sheet row: the columns it has, the cells that hold a boolean, the values
SheetRow(barcode, category) ==
  [present |-> RowKeys, boolean |-> {}, barcode |-> barcode, category |-> category,
   manufacturer |-> "XYZ Clothing", quantity |-> 5,
   cost_price |-> CostOf(barcode), sale_price |-> PriceOf(barcode)]

\* a row that updates the first product, a row that adds a product of a new
\* category, and a row that throws after it has added that category
SheetRows ==
  {SheetRow(1, "Sarees"), SheetRow(NewBarcode, "Kurti"),
   [SheetRow(1, "Kurti") EXCEPT !.boolean = {"manufacturer"}]}

\* the uploads: none, an empty sheet, and sheets of distinct rows
Files ==
  {[op |-> "importProducts", uploaded |-> FALSE, rows |-> <<>>]}
    \cup {[op |-> "importProducts", uploaded |-> TRUE, rows |-> rows] :
            rows \in {f \in UNION {[1..k -> SheetRows] : k \in 0..MaxRows} :
                        \A i, j \in DOMAIN f : f[i] = f[j] => i = j}}

(***************************************************************************)
(* The inventory routes as a state machine.                                *)
(***************************************************************************)
CommitInv(out) ==
  /\ products' = out.db.products
  /\ categories' = out.db.categories
  /\ manufacturers' = out.db.manufacturers
  /\ UNCHANGED <<server, binder, now, sales, sale_items, seq, created, ui>>

Answer(op, id, r, out) ==
  /\ CommitInv(out)
  /\ req' = r
  /\ resp' = [op |-> op, id |-> id, status |-> out.status, body |-> out.body]

CreateCategory ==
  \E r \in LookupRequests("Sarees", "Kurti") :
    LET out == postLookup(categories, r)
    IN  Answer("createCategory", 0, r,
               Reply([Inv EXCEPT !.categories = out.table], out.status, out.body))

CreateManufacturer ==
  \E r \in LookupRequests("XYZ Clothing", "JKL Textiles") :
    LET out == postLookup(manufacturers, r)
    IN  Answer("createManufacturer", 0, r,
               Reply([Inv EXCEPT !.manufacturers = out.table], out.status, out.body))

CreateProduct == \E r \in ProductRequests : Answer("createProduct", 0, r, postProducts(Inv, r))

PatchQuantity ==
  \E id \in 1..(Cardinality(DOMAIN products) + 1), r \in QuantityRequests :
    Answer("patchQuantity", id, r, patchQuantity(Inv, id, r))

\* what the request log keeps of an uploaded sheet: the barcodes its rows carry
Named(file) ==
  [op |-> "importProducts", uploaded |-> file.uploaded, total |-> Len(file.rows),
   barcodes |-> {file.rows[i].barcode : i \in DOMAIN file.rows}]

ImportProducts ==
  \E file \in Files : Answer("importProducts", 0, Named(file), importProducts(Inv, file))

ListProducts ==
  Answer("listProducts", 0, [NoRequest EXCEPT !.op = "listProducts"], getProducts(Inv))

GetProduct ==
  \E barcode \in 1..MaxProducts :
    Answer("getProduct", barcode, [NoRequest EXCEPT !.op = "getProduct"],
           getProductByBarcode(Inv, barcode))

ExportProducts ==
  Answer("exportProducts", 0, [NoRequest EXCEPT !.op = "exportProducts"], exportProducts(Inv))

NextInventory ==
  \/ CreateCategory \/ CreateManufacturer \/ CreateProduct \/ PatchQuantity
  \/ ImportProducts \/ ListProducts \/ GetProduct \/ ExportProducts

SpecInventory == Init /\ [][NextInventory]_vars

(***************************************************************************)
(* The pages.  ui.page is "new-sale" for the new-sale page with per-item   *)
(* discounts, "new-sale.tsx" for src/pages/NewSale.tsx and "sales-report"  *)
(* for src/pages/SalesReport.tsx.  A page that is left is unmounted, so    *)
(* its state is that of Mounted when it is shown again.  The pages' GET    *)
(* requests write nothing and are not kept in req and resp.                *)
(***************************************************************************)
MaxCartQuantity == 2
MaxPosSales == 1

Pages == {"new-sale", "new-sale.tsx", "sales-report"}
\* what is typed into Discount and To Pay: less and more than any cart total
Amounts == {5, 30}
\* what is typed into an item's discount %: more than the field's max
Percents == {150}
\* the type the pages create; the type decides nothing but the number (see
\* NumberedRequests)
PageTypes == {"bill"}
\* the barcodes that are scanned: those of the products and one of no product
ScanBarcodes == ProductIds \cup {UnknownProductId}

RECURSIVE SumOf(_, _)
SumOf(list, key) == IF Len(list) = 0 THEN 0 ELSE Head(list)[key] + SumOf(Tail(list), key)

\* cartItems.filter(keep)
RECURSIVE Filter(_, _)
Filter(list, keep) ==
  IF Len(list) = 0 THEN <<>>
  ELSE (IF Head(list) \in keep THEN <<Head(list)>> ELSE <<>>) \o Filter(Tail(list), keep)

\* array.splice(index, 1)
Splice(list, index) == [i \in 1..(Len(list) - 1) |-> IF i < index THEN list[i] ELSE list[i + 1]]

\* the effect on [cartItems]
recalculateTotals(u) ==
  LET total == SumOf(u.cartItems, "item_final_price")
      totalDiscountAmount == SumOf(u.cartItems, "discount_amount")
  IN  [u EXCEPT !.totalAmount = total + totalDiscountAmount,
                !.discount = totalDiscountAmount,
                !.finalAmount = total]

\* the effect on [finalAmount, totalAmount]
updateDiscount(u) ==
  LET calculatedDiscount == u.totalAmount - u.finalAmount
  IN  IF calculatedDiscount # u.discount
      THEN [u EXCEPT !.discount = IF calculatedDiscount >= 0 THEN calculatedDiscount ELSE 0]
      ELSE u

\* setCartItems(cart) and the effects the next renders run
setCartItems(u, cart) == updateDiscount(recalculateTotals([u EXCEPT !.cartItems = cart]))

\* an item's discount amount: (percent / 100) * price
discountOf(percent, price) == (percent * price) \div 100

handleProductSuccess(u, data, quantity) ==
  IF data.quantity < quantity THEN u
  ELSE IF \E i \in DOMAIN u.cartItems : u.cartItems[i].product_id = data.id
  THEN setCartItems(u, [i \in DOMAIN u.cartItems |->
         LET item == u.cartItems[i]
             newQuantity == item.quantity + quantity
             updatedPrice == data.sale_price * newQuantity
             discount_amount == discountOf(item.discount_percent, updatedPrice)
         IN  IF item.product_id # data.id \/ newQuantity > data.quantity THEN item
             ELSE [item EXCEPT !.quantity = newQuantity,
                               !.item_final_price = updatedPrice - discount_amount,
                               !.discount_amount = discount_amount]])
  ELSE setCartItems(u, Append(u.cartItems,
         [product_id |-> data.id, barcode |-> data.barcode, category_name |-> data.category,
          sale_price |-> data.sale_price, quantity |-> quantity, discount_percent |-> 0,
          discount_amount |-> 0, item_final_price |-> data.sale_price * quantity]))

\* handleAddItem: the product is looked up, a 404 ends in a toast
handleAddItem(u, inv, barcode, quantity) ==
  LET result == getProductByBarcode(inv, barcode)
  IN  IF result.status = 200 THEN handleProductSuccess(u, result.body, quantity) ELSE u

updateItemQuantity(u, productId, newQuantity) ==
  IF newQuantity < 1 THEN u
  ELSE setCartItems(u, [i \in DOMAIN u.cartItems |->
         LET item == u.cartItems[i]
             updatedPrice == item.sale_price * newQuantity
             discountAmount == discountOf(item.discount_percent, updatedPrice)
         IN  IF item.product_id # productId THEN item
             ELSE [item EXCEPT !.quantity = newQuantity,
                               !.discount_amount = discountAmount,
                               !.item_final_price = updatedPrice - discountAmount]])

updateItemDiscount(u, productId, discountPercent) ==
  LET limitedDiscount == Max({0, Min(100, discountPercent)})
  IN  setCartItems(u, [i \in DOMAIN u.cartItems |->
        LET item == u.cartItems[i]
            totalPrice == item.sale_price * item.quantity
            discountAmount == discountOf(limitedDiscount, totalPrice)
        IN  IF item.product_id # productId THEN item
            ELSE [item EXCEPT !.discount_percent = limitedDiscount,
                              !.discount_amount = discountAmount,
                              !.item_final_price = totalPrice - discountAmount]])

removeItem(u, productId) ==
  setCartItems(u, Filter(u.cartItems,
                         {u.cartItems[i] : i \in {j \in DOMAIN u.cartItems :
                                                    u.cartItems[j].product_id # productId}}))

handleDiscountChange(u, value) ==
  updateDiscount([u EXCEPT !.discount = value, !.finalAmount = u.totalAmount - value])

handleFinalAmountChange(u, value) ==
  LET newDiscount == u.totalAmount - value
  IN  updateDiscount([u EXCEPT !.finalAmount = value,
                               !.discount = IF newDiscount >= 0 THEN newDiscount ELSE 0])

\* the body handleCreateSale sends: paymentMode is undefined until a radio
\* button is chosen (here "") and is then no key of the body, and the items go
\* without their discount fields
saleOfCart(u, type) ==
  [op |-> "createSale",
   present |-> IF u.paymentMode = "" THEN SaleKeys \ {"payment_mode"} ELSE SaleKeys,
   type |-> type,
   customer_name |-> "", mobile |-> "", payment_mode |-> u.paymentMode, remarks |-> "",
   total_amount |-> u.totalAmount, total_discount |-> u.discount,
   final_amount |-> u.finalAmount,
   items |-> [kind |-> "list",
              list |-> [i \in DOMAIN u.cartItems |->
                          LET item == u.cartItems[i]
                          IN  [product_id |-> item.product_id,
                               category_name |-> item.category_name,
                               sale_price |-> item.sale_price, quantity |-> item.quantity,
                               item_final_price |-> item.item_final_price,
                               bindable |-> TRUE]]]]

\* src/pages/NewSale.tsx: the product rows carry category, not category_name,
\* so a cart item's category_name is undefined
addProductToCart(u, product) ==
  IF product.quantity <= 0 THEN u
  ELSE IF \E i \in DOMAIN u.cartItems : u.cartItems[i].id = product.id
  THEN LET existingItemIndex == CHOOSE i \in DOMAIN u.cartItems : u.cartItems[i].id = product.id
           existingItem == u.cartItems[existingItemIndex]
       IN  IF existingItem.quantity >= product.quantity THEN u
           ELSE [u EXCEPT !.cartItems[existingItemIndex].quantity = existingItem.quantity + 1]
  ELSE [u EXCEPT !.cartItems = Append(@,
          [id |-> product.id, barcode |-> product.barcode, category_name |-> Undefined,
           sale_price |-> product.sale_price, quantity |-> 1])]

\* the barcode field and the effects on [barcode] and [scannedProduct]
scanBarcode(u, inv, barcode) ==
  LET result == getProductByBarcode(inv, barcode)
  IN  IF result.status = 200 THEN addProductToCart(u, result.body) ELSE u

removeFromCart(u, index) == [u EXCEPT !.cartItems = Splice(@, index)]

updateCartItemQuantity(u, inv, index, newQuantity) ==
  LET item == u.cartItems[index]
  IN  IF newQuantity <= 0 THEN removeFromCart(u, index)
      ELSE IF item.id \notin DOMAIN inv.products THEN u
      ELSE IF newQuantity > inv.products[item.id].quantity THEN u
      ELSE [u EXCEPT !.cartItems[index].quantity = newQuantity]

cartTotal(u) ==
  SumOf([i \in DOMAIN u.cartItems |->
           [amount |-> u.cartItems[i].sale_price * u.cartItems[i].quantity]], "amount")
finalTotal(u) == cartTotal(u) - u.discount

\* saleData of createSaleMutation
saleData(u, type) ==
  [op |-> "createSale", present |-> SaleKeys, type |-> type,
   customer_name |-> "", mobile |-> "", payment_mode |-> u.paymentMode, remarks |-> "",
   total_amount |-> cartTotal(u), total_discount |-> u.discount,
   final_amount |-> finalTotal(u),
   items |-> [kind |-> "list",
              list |-> [i \in DOMAIN u.cartItems |->
                          LET item == u.cartItems[i]
                          IN  [product_id |-> item.id, category_name |-> item.category_name,
                               sale_price |-> item.sale_price, quantity |-> item.quantity,
                               item_final_price |-> item.sale_price * item.quantity,
                               bindable |-> TRUE]]]]

\* the loop of handleCreateSale: PATCH quantity: -item.quantity for each item
RECURSIVE updateQuantities(_, _)
updateQuantities(inv, items) ==
  IF Len(items) = 0 THEN inv
  ELSE updateQuantities(
         patchQuantity(inv, Head(items).id,
                       [op |-> "patchQuantity", present |-> {"quantity"},
                        quantity |-> 0 - Head(items).quantity]).db,
         Tail(items))

\* GET /api/sales/:id
getSaleById(d, id) ==
  IF id \in DOMAIN d.sales THEN Reply(d, 200, SaleJson(d, id))
  ELSE Reply(d, 404, [error |-> "Sale not found"])

\* handleViewDetails, the query of the sale and the effect on [saleDetail]
handleViewDetails(u, d, id) ==
  [u EXCEPT !.selectedSaleId = id, !.isEditing = FALSE,
            !.editedItems = getSaleById(d, id).body.items]

handleUpdateItemQuantity(u, index, newQuantity) ==
  IF ~u.isEditing \/ newQuantity < 0 THEN u
  ELSE [u EXCEPT !.editedItems[index].quantity = newQuantity,
                 !.editedItems[index].item_final_price =
                     u.editedItems[index].sale_price * newQuantity]

handleRemoveItem(u, index) ==
  IF ~u.isEditing THEN u ELSE [u EXCEPT !.editedItems = Splice(@, index)]

calculateEditedTotals(u, saleDetail) ==
  LET total == SumOf(u.editedItems, "item_final_price")
      discount == saleDetail.total_discount
  IN  [total |-> total, discount |-> discount, final |-> total - discount]

\* updatedSale of handleSaveChanges
updatedSale(u, saleDetail) ==
  LET totals == calculateEditedTotals(u, saleDetail)
  IN  [op |-> "updateSale", present |-> EditKeys, type |-> "", customer_name |-> "",
       mobile |-> "", payment_mode |-> "", remarks |-> "",
       total_amount |-> totals.total, total_discount |-> totals.discount,
       final_amount |-> totals.final,
       items |-> [kind |-> "list",
                  list |-> [i \in DOMAIN u.editedItems |->
                              LET item == u.editedItems[i]
                              IN  [product_id |-> item.product_id,
                                   category_name |-> item.category_name,
                                   sale_price |-> item.sale_price,
                                   quantity |-> item.quantity,
                                   item_final_price |-> item.item_final_price,
                                   bindable |-> TRUE]]]]

(***************************************************************************)
(* The pages as a state machine over the server.                           *)
(***************************************************************************)
backend == <<server, binder, now, products, categories, manufacturers, sales, sale_items, seq,
             req, resp, created>>

\* a handler that ends in new page state and sends nothing that writes
Render(u) == ui' = u /\ UNCHANGED backend

\* the page is shown and no receipt dialog covers it
OnPage(page) == ui.page = page /\ ~ui.showReceipt

\* the new-sale pages are followed for as long as a sale may still be created
Selling(page) == OnPage(page) /\ seq.sales < MaxPosSales

Navigate == \E page \in Pages : Render(Mounted(page))

AddItem ==
  /\ Selling("new-sale")
  /\ \E barcode \in ScanBarcodes, quantity \in 1..MaxCartQuantity :
       Render(handleAddItem(ui, Inv, barcode, quantity))

ChangeItemQuantity ==
  /\ Selling("new-sale")
  /\ \E i \in DOMAIN ui.cartItems, step \in {-1, 1} :
       /\ ui.cartItems[i].quantity + step <= MaxCartQuantity
       /\ Render(updateItemQuantity(ui, ui.cartItems[i].product_id,
                                    ui.cartItems[i].quantity + step))

ChangeItemDiscount ==
  /\ Selling("new-sale")
  /\ \E i \in DOMAIN ui.cartItems, percent \in Percents :
       Render(updateItemDiscount(ui, ui.cartItems[i].product_id, percent))

RemoveItem ==
  /\ Selling("new-sale")
  /\ \E i \in DOMAIN ui.cartItems : Render(removeItem(ui, ui.cartItems[i].product_id))

ChangeDiscount ==
  Selling("new-sale") /\ \E value \in Amounts : Render(handleDiscountChange(ui, value))

ChangeFinalAmount ==
  Selling("new-sale") /\ \E value \in Amounts : Render(handleFinalAmountChange(ui, value))

\* onSuccess of createSaleMutation: setReceiptType(data.type), setShowReceipt(true);
\* data is the body of the answer, and a key it lacks reads as undefined
onSuccess(u, data) ==
  [u EXCEPT !.showReceipt = TRUE,
            !.receiptType = IF "type" \in DOMAIN data THEN data.type ELSE Undefined]

\* handleCreateSale(type) and onSuccess of createSaleMutation; the buttons are
\* disabled while the cart is empty
CreateFromCart ==
  /\ Selling("new-sale")
  /\ Len(ui.cartItems) > 0
  /\ seq.sale_items + Len(ui.cartItems) <= MaxItemId
  /\ \E type \in PageTypes :
       LET r == saleOfCart(ui, type) IN
         /\ Post(r)
         /\ ui' = IF postSales(Db, r, now).status = 201
                  THEN onSuccess(ui, postSales(Db, r, now).body) ELSE ui

\* handleCloseReceipt
CloseReceipt ==
  ui.page = "new-sale" /\ ui.showReceipt /\ Render(Mounted("sales-report"))

ScanProduct ==
  /\ Selling("new-sale.tsx")
  /\ \E barcode \in ScanBarcodes : Render(scanBarcode(ui, Inv, barcode))

ChangeCartQuantity ==
  /\ Selling("new-sale.tsx")
  /\ \E i \in DOMAIN ui.cartItems, step \in {-1, 1} :
       /\ ui.cartItems[i].quantity + step <= MaxCartQuantity
       /\ Render(updateCartItemQuantity(ui, Inv, i, ui.cartItems[i].quantity + step))

RemoveFromCart ==
  /\ Selling("new-sale.tsx")
  /\ \E i \in DOMAIN ui.cartItems : Render(removeFromCart(ui, i))

SetTotalDiscount ==
  Selling("new-sale.tsx") /\ \E value \in Amounts : Render([ui EXCEPT !.discount = value])

\* handleCreateSale of src/pages/NewSale.tsx: the sale is created, the form is
\* reset, and each item's product is patched; an empty cart sends nothing
CreateAndPatch ==
  /\ Selling("new-sale.tsx")
  /\ Len(ui.cartItems) > 0
  /\ seq.sale_items + Len(ui.cartItems) <= MaxItemId
  /\ \E type \in PageTypes :
       LET r == saleData(ui, type)
           out == postSales(Db, r, now)
           ok == out.status = 201
           last == ui.cartItems[Len(ui.cartItems)]
           inv == updateQuantities([Inv EXCEPT !.products = out.db.products], ui.cartItems)
       IN  /\ products' = IF ok THEN inv.products ELSE out.db.products
           /\ sales' = out.db.sales
           /\ sale_items' = out.db.sale_items
           /\ seq' = out.db.seq
           /\ created' = IF ok
                         THEN Append(created,
                                [type |-> r.type, number |-> out.body.number, id |-> out.body.id,
                                 before |-> [p \in DOMAIN products |-> products[p].quantity]])
                         ELSE created
           /\ req' = IF ok THEN [op |-> "patchQuantity", present |-> {"quantity"},
                                 quantity |-> 0 - last.quantity]
                     ELSE r
           /\ resp' = IF ok THEN [op |-> "patchQuantity", id |-> last.id, status |-> 200,
                                  body |-> patchQuantity(inv, last.id,
                                             [op |-> "patchQuantity", present |-> {"quantity"},
                                              quantity |-> 0 - last.quantity]).body]
                      ELSE [op |-> "createSale", id |-> 0, status |-> out.status,
                            body |-> out.body]
           /\ ui' = IF ok THEN Mounted("new-sale.tsx") ELSE ui
           /\ UNCHANGED <<server, binder, now, lookups>>

ViewDetails ==
  /\ OnPage("sales-report")
  /\ \E id \in DOMAIN sales : Render(handleViewDetails(ui, Db, id))

\* the Edit button: setIsEditing(true)
StartEditing ==
  /\ OnPage("sales-report")
  /\ ui.selectedSaleId \in DOMAIN sales
  /\ ~ui.isEditing
  /\ Render([ui EXCEPT !.isEditing = TRUE])

EditItemQuantity ==
  /\ OnPage("sales-report")
  /\ ui.isEditing
  /\ \E i \in DOMAIN ui.editedItems, step \in {-1, 1} :
       /\ ui.editedItems[i].quantity + step <= MaxCartQuantity
       /\ Render(handleUpdateItemQuantity(ui, i, ui.editedItems[i].quantity + step))

EditRemoveItem ==
  /\ OnPage("sales-report")
  /\ ui.isEditing
  /\ \E i \in DOMAIN ui.editedItems : Render(handleRemoveItem(ui, i))

\* handleSaveChanges and onSuccess of updateSaleMutation, after which the sale
\* is fetched again
SaveChanges ==
  /\ OnPage("sales-report")
  /\ ui.isEditing
  /\ ui.selectedSaleId \in DOMAIN sales
  /\ seq.sale_items + Len(ui.editedItems) <= MaxItemId
  /\ LET id == ui.selectedSaleId
         r == updatedSale(ui, getSaleById(Db, id).body)
         out == putSales(Db, id, r)
     IN  /\ Put(id, r)
         /\ ui' = IF out.status = 200 THEN handleViewDetails(ui, out.db, id) ELSE ui

NextPos ==
  \/ Navigate
  \/ AddItem \/ ChangeItemQuantity \/ ChangeItemDiscount \/ RemoveItem
  \/ ChangeDiscount \/ ChangeFinalAmount \/ CreateFromCart \/ CloseReceipt
  \/ ScanProduct \/ ChangeCartQuantity \/ RemoveFromCart \/ SetTotalDiscount \/ CreateAndPatch
  \/ ViewDetails \/ StartEditing \/ EditItemQuantity \/ EditRemoveItem \/ SaveChanges

SpecPos == Init /\ [][NextPos]_vars

\* C8: every stored sale's final_amount equals its total_amount minus its
\* total_discount, whichever page created it and whatever the sales report
\* saved over it.
C8_FinalIsTotalLessDiscount ==
  \A id \in DOMAIN sales :
    sales[id].final_amount = sales[id].total_amount - sales[id].total_discount

(***************************************************************************)
(* Properties of the stock.                                                *)
(***************************************************************************)
RECURSIVE SumQty(_, _)
\* the quantities of the items of a list that reference product p
SumQty(list, p) ==
  IF Len(list) = 0 THEN 0
  ELSE (IF Head(list).product_id = p THEN Head(list).quantity ELSE 0) + SumQty(Tail(list), p)

RECURSIVE SumRows(_, _, _)
\* the quantities of the rows `ids` of a sale_items table that reference product p
SumRows(rows, ids, p) ==
  IF ids = {} THEN 0
  ELSE LET i == CHOOSE x \in ids : TRUE
       IN  (IF rows[i].product_id = p THEN rows[i].quantity ELSE 0) + SumRows(rows, ids \ {i}, p)

Succeeded(op, status) == resp'.op = op /\ resp'.status = status
Failed(op) == resp'.op = op /\ resp'.status >= 400

\* C1: a successful POST /api/sales takes from every product the sum of the
\* quantities of the request's items that reference it, and from no other product.
C1_CreateDecrementsStock ==
  [][Succeeded("createSale", 201) =>
       \A p \in DOMAIN products :
         products'[p].quantity = products[p].quantity - SumQty(req'.items.list, p)]_vars

\* a sale was created from two items of one product while another product exists
C1_Witness ==
  /\ resp.op = "createSale" /\ resp.status = 201
  /\ Len(req.items.list) = 2
  /\ req.items.list[1].product_id = req.items.list[2].product_id
  /\ \E p \in DOMAIN products : products[p].quantity = InitStock

\* C2: a successful PUT /api/sales/:id changes every product's quantity by the sum
\* of the sale's old item quantities minus the sum of the new ones.
C2_EditNetChange ==
  [][Succeeded("updateSale", 200) =>
       \A p \in DOMAIN products :
         products'[p].quantity - products[p].quantity =
           SumRows(sale_items, ItemIdsOf(Db, resp'.id), p) - SumQty(req'.items.list, p)]_vars

\* a sale that had an item was edited to two items of one product
C2_Witness ==
  /\ resp.op = "updateSale" /\ resp.status = 200
  /\ Len(req.items.list) = 2
  /\ req.items.list[1].product_id = req.items.list[2].product_id
  /\ seq.sale_items = MaxItemId

\* C3: the delete removes the sale and all its items and adds back, per product,
\* the sum of the sale's item quantities; deleting a sale right after creating it
\* leaves every quantity as it was before the creation.
C3_DeleteRestoresStock ==
  [][Succeeded("deleteSale", 200) =>
       /\ resp'.id \notin DOMAIN sales'
       /\ \A i \in DOMAIN sale_items' : sale_items'[i].sale_id # resp'.id
       /\ \A p \in DOMAIN products :
            products'[p].quantity =
              products[p].quantity + SumRows(sale_items, ItemIdsOf(Db, resp'.id), p)
       /\ (resp.op = "createSale" /\ resp.status = 201 /\ resp.body.id = resp'.id) =>
            \A p \in DOMAIN products :
              products'[p].quantity = created[Len(created)].before[p]]_vars

\* a sale of two items was deleted as the request after its creation
C3_Witness ==
  /\ resp.op = "deleteSale" /\ resp.status = 200
  /\ Len(created) > 0 /\ created[Len(created)].id = resp.id
  /\ seq.sale_items = 2 /\ sale_items = <<>>
  /\ seq.sales = 1

\* C4: every product's quantity is its stocked quantity minus the quantities of all
\* sale items that exist for it.
C4_LifecycleInvariant ==
  \A p \in DOMAIN products :
    products[p].quantity = InitStock - SumRows(sale_items, DOMAIN sale_items, p)

\* one sale was deleted and the other was edited
C4_Witness ==
  /\ seq.sales = 2 /\ Cardinality(DOMAIN sales) = 1
  /\ resp.op = "updateSale" /\ resp.status = 200
  /\ sale_items # <<>>

NumericPart(number) ==
  IF Len(number) = 2 THEN parseInt(number[2])
  ELSE number[2] * 10 ^ PadWidth + parseInt(number[3])

\* how many of the first k creations were of the type of the k-th
CountOfType(k) == Cardinality({i \in 1..k : created[i].type = created[k].type})

\* C6: within one type every created sale's number has a numeric part strictly
\* greater than that of every sale of the type created before it, so that no
\* number is issued twice.
C6_NumbersStrictlyIncrease ==
  \A i, j \in DOMAIN created :
    (i < j /\ created[i].type = created[j].type) =>
      NumericPart(created[i].number) < NumericPart(created[j].number)

\* C7: the k-th sale created of a type is numbered PREFIX-NNNN with NNNN = k padded
\* to four digits, bills and estimates counted apart, the first being 0001.
C7_SequentialNumbers ==
  \A k \in DOMAIN created :
    created[k].number =
      <<prefix(created[k].type), padStart(Digits(CountOfType(k)), PadWidth)>>

(***************************************************************************)
(* Properties of failing requests.                                         *)
(***************************************************************************)
\* C9: a POST /api/sales or PUT /api/sales/:id that fails leaves no sale row, no
\* item row, no change to existing rows and no quantity change behind.
C9_FailureLeavesNothing ==
  [][(Failed("createSale") \/ Failed("updateSale")) =>
       UNCHANGED <<products, sales, sale_items, seq>>]_vars

\* an edit of a sale that has items failed at its second item, after the
\* restoration, the deletion and one insertion
C9_Witness ==
  /\ resp.op = "updateSale" /\ resp.status = 500
  /\ ItemIdsOf(Db, resp.id) # {}
  /\ Len(req.items.list) = 2
  /\ ~ItemThrows(Db, req.items.list[1])
  /\ ItemThrows(Db, req.items.list[2])

\* the create request lacks its type, or its items are missing, not a list or empty
CreateInvalid(r) ==
  \/ ~Has(r, "type")
  \/ ~Has(r, "items")
  \/ r.items.kind # "list"
  \/ Len(r.items.list) = 0

\* C10: a POST /api/sales without type, or whose items are missing, not a list or
\* empty, is answered 400 and changes nothing, the next sale number included.
C10_CreateValidation ==
  [][(resp'.op = "createSale" /\ CreateInvalid(req')) =>
       /\ resp'.status = 400
       /\ UNCHANGED <<products, sales, sale_items, seq>>
       /\ \A type \in SaleTypes : nextNumber(Db, type) = nextNumber(Db', type)]_vars

(***************************************************************************)
(* GET /api/sales: the listing of the sales report.  A query is a record   *)
(* with the set of the parameters it carries; a parameter that is absent   *)
(* or empty is falsy.  Text is compared letter by letter, in lower case as *)
(* LIKE does.                                                              *)
(***************************************************************************)
MaxListed == 2

\* the letters of the texts that are stored or searched
Letters(text) ==
  CASE text = "Asha" -> <<"a", "s", "h", "a">>
    [] text = "Walk In Customer" ->
         <<"w", "a", "l", "k", " ", "i", "n", " ", "c", "u", "s", "t", "o", "m", "e", "r">>
    [] text = "sh" -> <<"s", "h">>
    [] text = "BILL" -> <<"b", "i", "l", "l">>
    [] text = "EST" -> <<"e", "s", "t">>
    [] text = "saree" -> <<"s", "a", "r", "e", "e">>
    [] text = "Sarees" -> <<"s", "a", "r", "e", "e", "s">>
    [] text = "Coord Set" -> <<"c", "o", "o", "r", "d", " ", "s", "e", "t">>
    [] text = "Kurti" -> <<"k", "u", "r", "t", "i">>
    [] text = "XYZ Clothing" -> <<"x", "y", "z", " ", "c", "l", "o", "t", "h", "i", "n", "g">>
    [] text = "ABC Manufacturer" ->
         <<"a", "b", "c", " ", "m", "a", "n", "u", "f", "a", "c", "t", "u", "r", "e", "r">>
    [] text = "JKL Textiles" -> <<"j", "k", "l", " ", "t", "e", "x", "t", "i", "l", "e", "s">>
    [] OTHER -> <<>>

DigitChars(digits) == [i \in DOMAIN digits |-> <<"0", "1", "2", "3", "4", "5", "6", "7", "8", "9">>[digits[i] + 1]]

\* the text of a sale number: BILL-0001, or BILL-<day>-0001 of the second server
NumberText(number) ==
  IF Len(number) = 2 THEN Letters(number[1]) \o <<"-">> \o DigitChars(number[2])
  ELSE Letters(number[1]) \o <<"-">> \o DigitChars(Digits(number[2])) \o <<"-">>
         \o DigitChars(number[3])

\* letters LIKE '%search%'
Contains(letters, search) ==
  \E i \in 0..(Len(letters) - Len(search)) : SubSeq(letters, i + 1, i + Len(search)) = search

\* column LIKE '%search%': NULL matches nothing
Like(column, search) == column # Null /\ Contains(Letters(column), Letters(search))

\* date(s.date) of the first server's 'yyyy-MM-dd HH:mm:ss', and the day string
\* the second server stores
StoredDay(sale) == sale.date[1]

\* the listing without its date conditions
getSales1AnyDate(d, q) ==
  {i \in DOMAIN d.sales :
     LET s == d.sales[i] IN
       /\ (Has(q, "type") /\ q.type \in {"bill", "estimate"}) => s.type = q.type
       /\ Has(q, "search") => (Like(s.customer_name, q.search) \/ Like(s.mobile, q.search))}

\* app.get('/api/sales') of the first server: the ids of the rows selected
getSales1(d, q) ==
  {i \in DOMAIN d.sales :
     LET s == d.sales[i] IN
       /\ IF Has(q, "date") THEN StoredDay(s) = q.date
          ELSE (Has(q, "startDate") /\ Has(q, "endDate")) =>
                 (q.startDate <= StoredDay(s) /\ StoredDay(s) <= q.endDate)
       /\ (Has(q, "type") /\ q.type \in {"bill", "estimate"}) => s.type = q.type
       /\ Has(q, "search") => (Like(s.customer_name, q.search) \/ Like(s.mobile, q.search))}

\* app.get('/api/sales') of the second server
getSales2(d, q) ==
  {i \in DOMAIN d.sales :
     LET s == d.sales[i] IN
       /\ Has(q, "date") => StoredDay(s) = q.date
       /\ (Has(q, "startDate") /\ Has(q, "endDate")) =>
            (q.startDate <= StoredDay(s) /\ StoredDay(s) <= q.endDate)
       /\ Has(q, "type") => s.type = q.type
       /\ Has(q, "search") =>
            \/ Contains(NumberText(s.number), Letters(q.search))
            \/ Like(s.customer_name, q.search)
            \/ Like(s.mobile, q.search)}

getSales(d, q) ==
  Reply(d, 200, [ids |-> IF server = 1 THEN getSales1(d, q) ELSE getSales2(d, q)])

\* what is typed into the search box
Searches == {"sh"}
\* the days the clock reaches
Days == 0..IstDay(MaxTime)

\* a bill of a named customer and an estimate of an unnamed one
ListedRequests ==
  {Body("createSale", SaleKeys, "bill", "Asha", 0, <<Item(1, 1)>>),
   Body("createSale", SaleKeys, "estimate", "", 0, <<Item(1, 1)>>)}

\* the date parameters: none, an exact date, a range, and both
DateQueries ==
  {[present |-> {}, date |-> 0, startDate |-> 0, endDate |-> 0]}
    \cup {[present |-> {"date"}, date |-> day, startDate |-> 0, endDate |-> 0] : day \in Days}
    \cup {[present |-> {"startDate", "endDate"}, date |-> 0, startDate |-> range[1],
           endDate |-> range[2]] : range \in {r \in Days \X Days : r[1] <= r[2]}}
    \cup {[present |-> {"date", "startDate", "endDate"}, date |-> day, startDate |-> 0,
           endDate |-> 0] : day \in Days}

SalesQueries ==
  {[op |-> "listSales", present |-> dq.present \cup keys, date |-> dq.date,
    startDate |-> dq.startDate, endDate |-> dq.endDate, type |-> "bill", search |-> search] :
     dq \in DateQueries, keys \in SUBSET {"type", "search"}, search \in Searches}

ListedCreate ==
  /\ seq.sales < MaxListed
  /\ UNCHANGED ui
  /\ \E r \in ListedRequests : Post(r)

ListSales ==
  \E q \in SalesQueries :
    LET out == getSales(Db, q) IN
      /\ req' = q
      /\ resp' = [op |-> "listSales", id |-> 0, status |-> out.status, body |-> out.body]
      /\ UNCHANGED <<server, binder, now, products, lookups, sales, sale_items, seq, created, ui>>

NextListing == ListedCreate \/ Tick \/ ListSales

SpecListing == Init /\ [][NextListing]_vars

\* the edit request has every key and a list of at least one item
EditWellFormed(r) ==
  /\ EditKeys \subseteq r.present
  /\ r.items.kind = "list"
  /\ Len(r.items.list) > 0

\* C11: a PUT /api/sales/:id that names no sale is answered 404 and leaves every
\* sale, sale item and product quantity as it was, although the request is
\* well formed.
C11_EditUnknownSale ==
  [][(resp'.op = "updateSale" /\ resp'.id \notin DOMAIN sales /\ EditWellFormed(req')) =>
       /\ resp'.status = 404
       /\ UNCHANGED <<products, sales, sale_items, seq>>]_vars

\* a well-formed edit of an id that no sale has was refused while a sale with
\* an item exists
C11_Witness ==
  /\ resp.op = "updateSale" /\ resp.status = 404
  /\ resp.id \notin DOMAIN sales
  /\ EditWellFormed(req)
  /\ sales # <<>> /\ sale_items # <<>>

\* C12, as stated: a listing with a search string returns every sale (of the
\* type asked for) whose customer name or mobile contains the string, whatever
\* date or range the request carries.
C12_SearchIgnoresDate ==
  [][(resp'.op = "listSales" /\ Has(req', "search")) =>
       \A i \in DOMAIN sales :
         (/\ Like(sales[i].customer_name, req'.search) \/ Like(sales[i].mobile, req'.search)
          /\ Has(req', "type") => sales[i].type = req'.type)
           => i \in resp'.body.ids]_vars

RECURSIVE StoredItems(_, _)
StoredItems(rows, ids) ==
  IF ids = {} THEN <<>>
  ELSE LET i == CHOOSE x \in ids : \A y \in ids : x <= y
       IN  <<[product_id |-> rows[i].product_id, category_name |-> rows[i].category_name,
              sale_price |-> rows[i].sale_price, quantity |-> rows[i].quantity,
              item_final_price |-> rows[i].item_final_price, bindable |-> TRUE]>>
             \o StoredItems(rows, ids \ {i})

\* C14: after a successful PUT /api/sales/:id the items stored for the sale are
\* the submitted list and nothing else, none of the rows it had before remains,
\* and the item rows of every other sale are as they were.
C14_ItemsReplacedWholesale ==
  [][Succeeded("updateSale", 200) =>
       /\ StoredItems(sale_items', ItemIdsOf(Db', resp'.id)) = req'.items.list
       /\ ItemIdsOf(Db, resp'.id) \cap DOMAIN sale_items' = {}
       /\ \A i \in DOMAIN sale_items :
            sale_items[i].sale_id # resp'.id =>
              (i \in DOMAIN sale_items' /\ sale_items'[i] = sale_items[i])
       /\ \A i \in DOMAIN sale_items' :
            sale_items'[i].sale_id # resp'.id => i \in DOMAIN sale_items]_vars

\* a sale that had an item was edited to an item of another product while
\* another sale keeps an item
C14_Witness ==
  /\ resp.op = "updateSale" /\ resp.status = 200
  /\ Len(req.items.list) = 1
  /\ \E i \in DOMAIN sale_items : sale_items[i].sale_id # resp.id
  /\ \E i \in ItemIdsOf(Db, resp.id) : i > 2 /\ sale_items[i].product_id = 2
  /\ \A i \in DOMAIN sale_items : sale_items[i].sale_id # resp.id => sale_items[i].product_id = 1

\* the number the server gives the next sale of the type is on no stored sale
NumberFree(type) ==
  ~NumberTaken(Db, IF server = 1 THEN formattedNumber(Db, type) ELSE saleNumber(Db, type, now))

\* C15: a POST /api/sales with an item of more than its product has in stock is
\* accepted like any other (its number being free) and takes the quantities from
\* the products, below zero where it must.
C15_NoServerStockCheck ==
  [][(/\ resp'.op = "createSale"
      /\ NumberFree(req'.type)
      /\ \E k \in DOMAIN req'.items.list :
           req'.items.list[k].quantity > products[req'.items.list[k].product_id].quantity) =>
       /\ resp'.status = 201
       /\ \A p \in DOMAIN products :
            products'[p].quantity = products[p].quantity - SumQty(req'.items.list, p)]_vars

\* a sale was created that left a product with a negative quantity
C15_Witness ==
  /\ resp.op = "createSale" /\ resp.status = 201
  /\ \E p \in DOMAIN products : products[p].quantity < 0


\* C16: a created sale is stored with the customer name "Walk In Customer" when
\* the request has no name or a blank one, and with the name sent otherwise.
C16_CustomerNameDefault ==
  [][Succeeded("createSale", 201) =>
       sales'[resp'.body.id].customer_name =
         IF Has(req', "customer_name") /\ req'.customer_name # ""
         THEN req'.customer_name
         ELSE "Walk In Customer"]_vars


(***************************************************************************)
(* Uploads with more than one row that cannot be imported.                 *)
(***************************************************************************)
\* the rows of SheetRows and a second row that throws, at its quantity cell
FailingRows ==
  SheetRows \cup {[SheetRow(2, "Sarees") EXCEPT !.boolean = {"quantity"}]}

\* sheets of one to MaxRows such rows, a row possibly repeated
Sheets ==
  {[op |-> "importProducts", uploaded |-> TRUE, rows |-> rows] :
     rows \in UNION {[1..k -> FailingRows] : k \in 1..MaxRows}}

ImportSheet ==
  \E file \in Sheets :
    Answer("importProducts", 0, [Named(file) EXCEPT !.op = "importSheet"] @@ [rows |-> file.rows],
           importProducts(Inv, file))

NextImport == ImportSheet \/ ListProducts

SpecImport == Init /\ [][NextImport]_vars

\* the positions of the rows of a sheet that cannot be imported
Failing(rows) == {i \in DOMAIN rows : rows[i].boolean # {}}

\* C17: an import answers with the positions of exactly the rows that could not
\* be imported, counts the other rows as imported, and has stored a product for
\* the barcode of each of them.
C17_PerRowFailures ==
  [][(resp'.op = "importProducts" /\ req'.op = "importSheet") =>
       /\ resp'.status \in {200, 201}
       /\ resp'.body.imported = Len(req'.rows) - Cardinality(Failing(req'.rows))
       /\ Len(resp'.body.errors) = Cardinality(Failing(req'.rows))
       /\ {resp'.body.errors[k] : k \in DOMAIN resp'.body.errors} = Failing(req'.rows)
       /\ \A i \in DOMAIN req'.rows \ Failing(req'.rows) :
            BarcodeTaken(Inv', req'.rows[i].barcode)]_vars


\* the products that carry the barcode
Carrying(table, barcode) == {i \in DOMAIN table : table[i].barcode = barcode}

\* C18: no two products ever share a barcode; creating a product under a barcode
\* that a product carries is refused and changes no table; an import leaves
\* every product under its barcode and adds at most one product for each
\* barcode of the sheet that no product carried.
C18_UniqueByBarcode ==
  [][/\ \A i, j \in DOMAIN products' : products'[i].barcode = products'[j].barcode => i = j
     /\ (/\ resp'.op = "createProduct" /\ Has(req', "barcode")
         /\ Carrying(products, req'.barcode) # {}) =>
          /\ resp'.status >= 400
          /\ UNCHANGED <<products, categories, manufacturers>>
     /\ resp'.op = "importProducts" =>
          /\ \A i \in DOMAIN products : i \in Carrying(products', products[i].barcode)
          /\ \A b \in req'.barcodes :
               Cardinality(Carrying(products', b)) <= 1
          /\ Cardinality(DOMAIN products') <=
               Cardinality(DOMAIN products)
                 + Cardinality({b \in req'.barcodes : Carrying(products, b) = {}})]_vars

\* an import has overwritten the first product in place and added a product,
\* and then a creation under the first product's barcode was refused
C18_Witness ==
  /\ resp.op = "createProduct" /\ resp.status >= 400
  /\ Has(req, "barcode") /\ req.barcode = 1
  /\ Cardinality(Carrying(products, 1)) = 1
  /\ products[1].quantity = 5 /\ products[1].barcode = 1
  /\ Cardinality(DOMAIN products) = MaxProducts


(***************************************************************************)
(* The inventory page: its product table under the search box, and its     *)
(* Export button.                                                          *)
(***************************************************************************)
\* what is typed into the search box: nothing, and part of one category's name
InventorySearches == {"", "saree"}

\* filteredProducts: barcode.includes(searchQuery), or the category or the
\* manufacturer, lower-cased, includes the lower-cased searchQuery
filteredProducts(rows, searchQuery) ==
  LET Shown(product) ==
        \/ Contains(DigitChars(Digits(product.barcode)), Letters(searchQuery))
        \/ Contains(Letters(product.category), Letters(searchQuery))
        \/ Contains(Letters(product.manufacturer), Letters(searchQuery))
  IN  IF searchQuery # "" THEN SelectSeq(rows, Shown) ELSE rows

OpenInventory == Render(Mounted("inventory"))

ChangeSearch ==
  /\ OnPage("inventory")
  /\ \E searchQuery \in InventorySearches : Render([ui EXCEPT !.searchQuery = searchQuery])

\* the Add Product dialog of the page
AddProduct == OnPage("inventory") /\ CreateProduct

\* handleExportProducts: exportProductsApi() opens /api/export/products
ExportShown == OnPage("inventory") /\ ExportProducts

NextExport == OpenInventory \/ ChangeSearch \/ AddProduct \/ ExportShown

SpecExport == Init /\ [][NextExport]_vars

\* the barcodes of a sequence of product rows
BarcodesOf(rows) == {rows[i].barcode : i \in DOMAIN rows}

\* C19: the sheet that the inventory page's Export downloads holds exactly the
\* products the page shows under its search box.
C19_ExportIsFilteredSet ==
  [][(resp'.op = "exportProducts" /\ resp'.status = 200 /\ ui'.page = "inventory") =>
       BarcodesOf(resp'.body.rows) =
         BarcodesOf(filteredProducts(getProducts(Inv').body.rows, ui'.searchQuery))]_vars


\* C20: on the new-sale page, after an edit of Discount or of To Pay (the cart
\* as it was) and the effects that follow, Discount plus To Pay is the total.
C20_DiscountAndToPay ==
  [][(/\ ui.page = "new-sale" /\ ui'.page = "new-sale"
      /\ ui'.cartItems = ui.cartItems /\ ui'.showReceipt = ui.showReceipt
      /\ <<ui'.discount, ui'.finalAmount>> # <<ui.discount, ui.finalAmount>>) =>
       ui'.discount + ui'.finalAmount = ui'.totalAmount]_vars


(***************************************************************************)
(* The payment mode controls of the two new-sale pages.                    *)
(***************************************************************************)
\* <RadioGroupItem value="cash" />, <RadioGroupItem value="upi" />
RadioItems == {"cash", "upi"}

\* <SelectItem value="cash">, <SelectItem value="card">, <SelectItem value="upi">
SelectItems == {"cash", "card", "upi"}

\* <RadioGroup value={paymentMode} onValueChange={setPaymentMode}>
ChoosePaymentMode ==
  /\ Selling("new-sale")
  /\ \E value \in RadioItems : Render([ui EXCEPT !.paymentMode = value])

\* <Select value={paymentMode} onValueChange={setPaymentMode}>
SelectPaymentMode ==
  /\ Selling("new-sale.tsx")
  /\ \E value \in SelectItems : Render([ui EXCEPT !.paymentMode = value])

NextPayment ==
  \/ Navigate \/ AddItem \/ ChoosePaymentMode \/ CreateFromCart \/ CloseReceipt
  \/ ScanProduct \/ SelectPaymentMode \/ CreateAndPatch

SpecPayment == Init /\ [][NextPayment]_vars

\* C21: the payment mode of every stored sale is NULL, cash or upi.
C21_PaymentModeCashOrUpi ==
  \A id \in DOMAIN sales : sales[id].payment_mode \in {Null, "cash", "upi"}


\* C22: POST /api/products answers 400 exactly when one of the six required
\* fields is no key of the request; a request with all six, a quantity of 0
\* among them, is not answered 400.
C22_RejectedIffFieldMissing ==
  [][resp'.op = "createProduct" =>
       (resp'.status = 400 <=> \E key \in ProductKeys : ~Has(req', key))]_vars


\* C23: the answer to a successful PUT /api/sales/:id carries the sale as it is
\* stored after the edit: its totals and, item by item, the list it now has.
C23_EditReturnsUpdatedSale ==
  [][Succeeded("updateSale", 200) =>
       LET body == resp'.body
           sale == sales'[resp'.id]
       IN  /\ {"total_amount", "total_discount", "final_amount", "items"} \subseteq DOMAIN body
           /\ body.total_amount = sale.total_amount
           /\ body.total_discount = sale.total_discount
           /\ body.final_amount = sale.final_amount
           /\ Len(body.items) = Len(req'.items.list)
           /\ \A k \in DOMAIN body.items :
                /\ body.items[k].product_id = req'.items.list[k].product_id
                /\ body.items[k].quantity = req'.items.list[k].quantity
                /\ body.items[k].item_final_price = req'.items.list[k].item_final_price]_vars


\* C24: when the new-sale page opens the receipt after a successful create, the
\* receipt type it displays is the type of the sale just created.
C24_ReceiptTypeIsSaleType ==
  [][(ui'.page = "new-sale" /\ ui'.showReceipt /\ ~ui.showReceipt) =>
       /\ Succeeded("createSale", 201)
       /\ ui'.receiptType = sales'[resp'.body.id].type]_vars


\* the quantity a cart of src/pages/NewSale.tsx holds of a product
CartQuantity(cart, id) == SumOf(SelectSeq(cart, LAMBDA item : item.id = id), "quantity")

\* C25: when Create Sale of src/pages/NewSale.tsx has gone through, the create
\* request and the quantity updates that follow it, every product of the cart
\* has its stock of before less the quantity the cart held of it.
C25_FlowDeductsOnce ==
  [][(ui.page = "new-sale.tsx" /\ Len(created') > Len(created)) =>
       \A i \in DOMAIN ui.cartItems :
         LET id == ui.cartItems[i].id
         IN  products'[id].quantity = products[id].quantity - CartQuantity(ui.cartItems, id)]_vars


(***************************************************************************)
(* The carts of the two new-sale pages with the - and + buttons followed   *)
(* up to one unit more than any product has in stock.  No sale is created  *)
(* here, so the stock the pages fetched is the stock of the products.      *)
(***************************************************************************)
\* onClick updateItemQuantity(item.product_id, item.quantity -/+ 1)
StepItemQuantity ==
  /\ Selling("new-sale")
  /\ \E i \in DOMAIN ui.cartItems, step \in {-1, 1} :
       /\ ui.cartItems[i].quantity + step <= InitStock + 1
       /\ Render(updateItemQuantity(ui, ui.cartItems[i].product_id,
                                    ui.cartItems[i].quantity + step))

\* onClick updateCartItemQuantity(index, item.quantity -/+ 1)
StepCartQuantity ==
  /\ Selling("new-sale.tsx")
  /\ \E i \in DOMAIN ui.cartItems, step \in {-1, 1} :
       /\ ui.cartItems[i].quantity + step <= InitStock + 1
       /\ Render(updateCartItemQuantity(ui, Inv, i, ui.cartItems[i].quantity + step))

NextCart ==
  \/ Navigate \/ AddItem \/ StepItemQuantity \/ RemoveItem
  \/ ScanProduct \/ StepCartQuantity \/ RemoveFromCart

SpecCart == Init /\ [][NextCart]_vars

\* C26: on either new-sale page no cart item holds more units than its product
\* has in stock.
C26_CartWithinStock ==
  /\ ui.page = "new-sale" =>
       \A i \in DOMAIN ui.cartItems :
         ui.cartItems[i].quantity <= products[ui.cartItems[i].product_id].quantity
  /\ ui.page = "new-sale.tsx" =>
       \A i \in DOMAIN ui.cartItems :
         ui.cartItems[i].quantity <= products[ui.cartItems[i].id].quantity


\* C27: every stored sale has an item and every stored item a quantity of at
\* least 1, whatever the pages created and the sales report saved.
C27_SalesHaveItems ==
  /\ \A id \in DOMAIN sales : \E i \in DOMAIN sale_items : sale_items[i].sale_id = id
  /\ \A i \in DOMAIN sale_items : sale_items[i].quantity >= 1


\* C28: a save from the sales report's edit mode that sends the items of the
\* sale as they are stored leaves the sale's three amounts and its items'
\* final prices as they were.
C28_SaveUnchangedIsNoOp ==
  [][(/\ Succeeded("updateSale", 200)
      /\ ui.page = "sales-report" /\ ui.isEditing
      /\ resp'.id \in DOMAIN sales
      /\ req'.items.list = StoredItems(sale_items, ItemIdsOf(Db, resp'.id))) =>
       LET id == resp'.id
       IN  /\ sales'[id].total_amount = sales[id].total_amount
           /\ sales'[id].total_discount = sales[id].total_discount
           /\ sales'[id].final_amount = sales[id].final_amount
           /\ StoredItems(sale_items', ItemIdsOf(Db', id)) =
                StoredItems(sale_items, ItemIdsOf(Db, id))]_vars


\* the fields of a sale that an edit has no business with
Identity(sale) ==
  <<sale.number, sale.type, sale.date, sale.customer_name, sale.mobile, sale.payment_mode,
    sale.remarks>>

\* C29: a PUT /api/sales/:id, whatever it answers, leaves the sales that are
\* stored the same sales, leaves number, type, date, customer name, mobile,
\* payment mode and remarks of the sale it names as they were, and leaves every
\* other sale as it was.
C29_EditKeepsIdentity ==
  [][resp'.op = "updateSale" =>
       /\ DOMAIN sales' = DOMAIN sales
       /\ \A i \in DOMAIN sales :
            IF i = resp'.id THEN Identity(sales'[i]) = Identity(sales[i])
            ELSE sales'[i] = sales[i]]_vars

\* a bill was edited while another sale is stored beside it; it has the
\* amounts of the request, whose type and customer name are not its own
C29_Witness ==
  /\ resp.op = "updateSale" /\ resp.status = 200
  /\ resp.id \in DOMAIN sales /\ sales[resp.id].type = "bill"
  /\ sales[resp.id].total_amount = req.total_amount /\ Len(req.items.list) > 0
  /\ req.type # sales[resp.id].type /\ req.customer_name # sales[resp.id].customer_name
  /\ \E i \in DOMAIN sales : i # resp.id


(***************************************************************************)
(* Create requests of any type value.                                      *)
(***************************************************************************)
\* the two types there are, a value that is neither, and no type at all
TypedRequests ==
  {Body("createSale", SaleKeys, t, "", 0, <<Item(1, 1)>>) : t \in SaleTypes \cup {"challan"}}
    \cup {Without(Body("createSale", SaleKeys, "", "", 0, <<Item(1, 1)>>), "type")}

TypedCreate ==
  /\ seq.sales < MaxNumbered
  /\ seq.sale_items < MaxItemId
  /\ UNCHANGED ui
  /\ \E r \in TypedRequests : Post(r)

NextTypes == TypedCreate \/ DeleteSale

SpecTypes == Init /\ [][NextTypes]_vars

\* C30: every stored sale is a bill or an estimate, and its number begins with
\* BILL if it is a bill and with EST if it is an estimate.
C30_TypeAndPrefix ==
  \A id \in DOMAIN sales :
    /\ sales[id].type \in {"bill", "estimate"}
    /\ sales[id].number[1] = IF sales[id].type = "bill" THEN "BILL" ELSE "EST"

====
